---------------------------- MODULE Spec2Model ----------------------------
(* A model of youtube-summarizer.py: the pipeline of main() (URL -> video  *)
(* id -> title -> transcript -> summary -> output file) and the pure       *)
(* functions it is built from.  A Python str is a sequence of one-         *)
(* character strings; None is a value that is no str.                      *)
EXTENDS Integers, Sequences, FiniteSets, TLC

VARIABLES
    pc,           \* where main() is: start, details, transcript, summarize,
                  \* write, returned (line 156), finished (line 180), crashed
    url,          \* args.url
    video_id,     \* main's local video_id
    video_title,  \* main's local video_title
    transcript,   \* main's local transcript
    summary,      \* main's local summary
    info,         \* what ydl.extract_info answered
    captions,     \* what YouTubeTranscriptApi.get_transcript answered
    response,     \* what requests.post answered
    file,         \* the output file in the working directory
    log,          \* the records logger emitted, in order
    calls         \* how many times each step of the chain was executed

vars == <<pc, url, video_id, video_title, transcript, summary,
          info, captions, response, file, log, calls>>

-----------------------------------------------------------------------------
(* Bounds of the model.                                                    *)

\* Longest identifier part of an enumerated URL.
MaxIdLen == 3

\* Most caption fragments the transcript collaborator returns.
MaxFrags == 3

-----------------------------------------------------------------------------
(* Python values.                                                          *)

\* None: a one-element sequence whose element is no character.
None == <<"<None>">>

\* A local of main() that has not been assigned yet.
Unset == <<"<unset>">>

\* The test "x is not None", which lets the empty str pass.
IsNotNone(x) == x # None

\* Python truthiness as main() and the steps use it (if x / if not x):
\* None and the empty str are false, any other str is true.
Truthy(x) == x # None /\ x # <<>>

\* The success status claude_api_request compares with.
HTTP_OK == 200

-----------------------------------------------------------------------------
(* str operations.                                                         *)

Take(s, n) == SubSeq(s, 1, n)

Drop(s, n) == SubSeq(s, n + 1, Len(s))

StartsWith(s, p) == Len(p) <= Len(s) /\ Take(s, Len(p)) = p

\* s.find(c, start), 1-based; 0 when c does not occur from start on.
IndexFrom(s, c, start) ==
    IF \E i \in start..Len(s) : s[i] = c
    THEN CHOOSE i \in start..Len(s) :
             s[i] = c /\ \A j \in start..(i - 1) : s[j] # c
    ELSE 0

\* s.rfind(c), 1-based; 0 when c does not occur.
LastIndex(s, c) ==
    IF \E i \in 1..Len(s) : s[i] = c
    THEN CHOOSE i \in 1..Len(s) :
             s[i] = c /\ \A j \in (i + 1)..Len(s) : s[j] # c
    ELSE 0

\* s.split(c): the pieces between the occurrences of c.
RECURSIVE Split(_, _)
Split(s, c) ==
    LET i == IndexFrom(s, c, 1) IN
    IF i = 0 THEN <<s>> ELSE <<Take(s, i - 1)>> \o Split(Drop(s, i), c)

\* s.split(c, 1): at most two pieces.
Split1(s, c) ==
    LET i == IndexFrom(s, c, 1) IN
    IF i = 0 THEN <<s>> ELSE <<Take(s, i - 1), Drop(s, i)>>

UPPER == <<"A", "B", "C", "D", "E", "F", "G", "H", "I", "J", "K", "L", "M",
           "N", "O", "P", "Q", "R", "S", "T", "U", "V", "W", "X", "Y", "Z">>

LOWER == <<"a", "b", "c", "d", "e", "f", "g", "h", "i", "j", "k", "l", "m",
           "n", "o", "p", "q", "r", "s", "t", "u", "v", "w", "x", "y", "z">>

DIGITS == <<"0", "1", "2", "3", "4", "5", "6", "7", "8", "9">>

Range(s) == {s[i] : i \in 1..Len(s)}

Letters == Range(UPPER) \cup Range(LOWER)

\* c.lower() of one character.
LowerChar(c) ==
    IF c \in Range(UPPER)
    THEN LOWER[CHOOSE i \in 1..Len(UPPER) : UPPER[i] = c]
    ELSE c

\* s.lower()
LowerStr(s) == [i \in 1..Len(s) |-> LowerChar(s[i])]

\* s.replace('+', ' ')
PlusToSpace(s) == [i \in 1..Len(s) |-> IF s[i] = "+" THEN " " ELSE s[i]]

\* chr(n) for the ASCII range; a control character and the grave accent
\* (0x60) are written <XX>.
AsciiTable == <<
    "<00>", "<01>", "<02>", "<03>", "<04>", "<05>", "<06>", "<07>",
    "<08>", "<09>", "<0A>", "<0B>", "<0C>", "<0D>", "<0E>", "<0F>",
    "<10>", "<11>", "<12>", "<13>", "<14>", "<15>", "<16>", "<17>",
    "<18>", "<19>", "<1A>", "<1B>", "<1C>", "<1D>", "<1E>", "<1F>",
    " ", "!", "\"", "#", "$", "%", "&", "'",
    "(", ")", "*", "+", ",", "-", ".", "/",
    "0", "1", "2", "3", "4", "5", "6", "7",
    "8", "9", ":", ";", "<", "=", ">", "?",
    "@", "A", "B", "C", "D", "E", "F", "G",
    "H", "I", "J", "K", "L", "M", "N", "O",
    "P", "Q", "R", "S", "T", "U", "V", "W",
    "X", "Y", "Z", "[", "\\", "]", "^", "_",
    "<60>", "a", "b", "c", "d", "e", "f", "g",
    "h", "i", "j", "k", "l", "m", "n", "o",
    "p", "q", "r", "s", "t", "u", "v", "w",
    "x", "y", "z", "{", "|", "}", "~", "<7F>"
    >>

HexDigits == Range(DIGITS) \cup {"a", "b", "c", "d", "e", "f"}
                 \cup {"A", "B", "C", "D", "E", "F"}

HexVal(c) ==
    IF c \in Range(DIGITS)
    THEN (CHOOSE i \in 1..Len(DIGITS) : DIGITS[i] = c) - 1
    ELSE (CHOOSE i \in 1..Len(LOWER) : LOWER[i] = LowerChar(c)) + 9

\* The character one %XX escape decodes to: the ASCII character, or U+FFFD
\* for a lone byte of 0x80 and above (utf-8 with errors='replace').
DecodeByte(h, l) ==
    LET n == HexVal(h) * 16 + HexVal(l) IN
    IF n < Len(AsciiTable) THEN AsciiTable[n + 1] ELSE "<U+FFFD>"

\* urllib.parse.unquote: every %XX with two hex digits is decoded, any
\* other % is kept.
RECURSIVE Unquote(_)
Unquote(s) ==
    IF s = <<>> THEN <<>>
    ELSE IF s[1] = "%" /\ Len(s) >= 3 /\ s[2] \in HexDigits /\ s[3] \in HexDigits
         THEN <<DecodeByte(s[2], s[3])>> \o Unquote(Drop(s, 3))
         ELSE <<s[1]>> \o Unquote(Drop(s, 1))

-----------------------------------------------------------------------------
(* urllib.parse.urlparse and parse_qs, as extract_video_id calls them.     *)

HTTPS == <<"h", "t", "t", "p", "s">>

HTTP == <<"h", "t", "t", "p">>

\* The schemes of urllib's uses_params that the model's URLs can carry.
UsesParams == {<<>>, HTTP, HTTPS}

SchemeChars == Letters \cup Range(DIGITS) \cup {"+", "-", "."}

\* urlsplit, scheme: the text before the first ':' when it starts with a
\* letter and holds scheme characters only.
SplitScheme(u) ==
    LET i == IndexFrom(u, ":", 1) IN
    IF i > 1 /\ u[1] \in Letters /\ \A k \in 1..(i - 1) : u[k] \in SchemeChars
    THEN [scheme |-> LowerStr(Take(u, i - 1)), rest |-> Drop(u, i)]
    ELSE [scheme |-> <<>>, rest |-> u]

\* urlsplit, _splitnetloc: after '//', up to the first of '/', '?', '#'.
SplitNetloc(u) ==
    IF StartsWith(u, <<"/", "/">>)
    THEN LET hits  == {IndexFrom(u, c, 3) : c \in {"/", "?", "#"}} \ {0}
             delim == IF hits = {} THEN Len(u) + 1
                      ELSE CHOOSE d \in hits : \A e \in hits : d <= e
         IN [netloc |-> SubSeq(u, 3, delim - 1), rest |-> Drop(u, delim - 1)]
    ELSE [netloc |-> <<>>, rest |-> u]

\* url.split(c, 1) of urlsplit: the part before the first c and the part
\* after it (empty when c does not occur).
CutAt(u, c) ==
    LET i == IndexFrom(u, c, 1) IN
    IF i = 0 THEN [head |-> u, tail |-> <<>>]
    ELSE [head |-> Take(u, i - 1), tail |-> Drop(u, i)]

\* urlparse's _splitparams: the parameters of the last path segment.
SplitParams(path) ==
    LET i == IndexFrom(path, ";", LastIndex(path, "/") + 1) IN
    IF i = 0 THEN path ELSE Take(path, i - 1)

\* ParseResult.hostname: the netloc after the last '@' and before the first
\* ':', in lower case; None when it is empty.
HostName(netloc) ==
    LET hostinfo == Drop(netloc, LastIndex(netloc, "@"))
        host     == CutAt(hostinfo, ":").head
    IN IF host = <<>> THEN None ELSE LowerStr(host)

\* urlparse(url): the hostname, path and query of the parse.
urlparse(u) ==
    LET s == SplitScheme(u)
        n == SplitNetloc(s.rest)
        f == CutAt(n.rest, "#")
        q == CutAt(f.head, "?")
        path == IF s.scheme \in UsesParams /\ IndexFrom(q.head, ";", 1) > 0
                THEN SplitParams(q.head) ELSE q.head
    IN [hostname |-> HostName(n.netloc), path |-> path, query |-> q.tail]

\* parse_qs(query).get('v', [None])[0]: the fields are split on '&'; a field
\* without '=' or with an empty value is dropped; name and value are decoded
\* ('+' is a space, %XX an escape); the first value of name v is returned.
RECURSIVE FirstV(_)
FirstV(fields) ==
    IF fields = <<>> THEN None
    ELSE LET nv == Split1(fields[1], "=") IN
         IF Len(nv) = 2 /\ Len(nv[2]) > 0
               /\ Unquote(PlusToSpace(nv[1])) = <<"v">>
         THEN Unquote(PlusToSpace(nv[2]))
         ELSE FirstV(Tail(fields))

parse_qs_v(query) == FirstV(Split(query, "&"))

-----------------------------------------------------------------------------
(* extract_video_id                                                        *)

YOUTU_BE == <<"y", "o", "u", "t", "u", ".", "b", "e">>

WWW_YOUTUBE_COM ==
    <<"w", "w", "w", ".", "y", "o", "u", "t", "u", "b", "e", ".", "c", "o", "m">>

YOUTUBE_COM == <<"y", "o", "u", "t", "u", "b", "e", ".", "c", "o", "m">>

WATCH_PATH == <<"/", "w", "a", "t", "c", "h">>

EMBED_PREFIX == <<"/", "e", "m", "b", "e", "d", "/">>

V_PREFIX == <<"/", "v", "/">>

\* A log record: level, message and the value formatted into it.
LogRec(level, msg, arg) == [level |-> level, msg |-> msg, arg |-> arg]

\* extract_video_id with the short link's path returned whole (line 55
\* without the [1:]).
extract_video_id_KeepSlash(u) ==
    LET p == urlparse(u) IN
    IF p.hostname = YOUTU_BE
    THEN [ret |-> p.path, log |-> <<>>]
    ELSE IF p.hostname \in {WWW_YOUTUBE_COM, YOUTUBE_COM} /\ p.path = WATCH_PATH
    THEN [ret |-> parse_qs_v(p.query), log |-> <<>>]
    ELSE IF p.hostname \in {WWW_YOUTUBE_COM, YOUTUBE_COM}
              /\ (StartsWith(p.path, EMBED_PREFIX) \/ StartsWith(p.path, V_PREFIX))
    THEN [ret |-> Split(p.path, "/")[3], log |-> <<>>]
    ELSE [ret |-> None,
          log |-> <<LogRec("error", "Could not extract video ID from URL", <<>>)>>]

\* extract_video_id(url): the value returned and what is logged.
extract_video_id(u) ==
    LET p == urlparse(u) IN
    IF p.hostname = YOUTU_BE
    THEN [ret |-> Drop(p.path, 1), log |-> <<>>]
    ELSE IF p.hostname \in {WWW_YOUTUBE_COM, YOUTUBE_COM} /\ p.path = WATCH_PATH
    THEN [ret |-> parse_qs_v(p.query), log |-> <<>>]
    ELSE IF p.hostname \in {WWW_YOUTUBE_COM, YOUTUBE_COM}
              /\ (StartsWith(p.path, EMBED_PREFIX) \/ StartsWith(p.path, V_PREFIX))
    THEN [ret |-> Split(p.path, "/")[3], log |-> <<>>]
    ELSE [ret |-> None,
          log |-> <<LogRec("error", "Could not extract video ID from URL", <<>>)>>]

-----------------------------------------------------------------------------
(* get_video_details                                                       *)

\* What ydl.extract_info can answer: it raises (yt_dlp's DownloadError for
\* an unavailable video), or returns an info dict whose title is absent
\* (None), empty, or a str.
InfoOutcomes ==
    {[raised |-> TRUE, title |-> None]}
        \cup {[raised |-> FALSE, title |-> t] :
                 t \in {None, <<>>, <<"T">>, <<"M", "y">>}}

\* get_video_details(video_id) when extract_info answers inf.  The call is
\* not guarded, so an error of extract_info leaves the function as an error.
get_video_details(id, inf) ==
    LET start == <<LogRec("info", "Fetching details for video ID", id)>> IN
    IF inf.raised
    THEN [raised |-> TRUE, ret |-> None, log |-> start]
    ELSE IF Truthy(inf.title)
    THEN [raised |-> FALSE, ret |-> inf.title,
          log |-> start \o <<LogRec("info", "Video title", inf.title)>>]
    ELSE [raised |-> FALSE, ret |-> None,
          log |-> start \o <<LogRec("error", "Video details not found", <<>>)>>]

-----------------------------------------------------------------------------
(* get_transcript                                                          *)

\* A caption fragment: its text and its timing.
Fragments ==
    {[text |-> t, start |-> 0, duration |-> 2] : t \in {<<>>, <<"a">>, <<"b">>, <<"c">>}}
        \cup {[text |-> <<"a">>, start |-> 2, duration |-> 1]}

RECURSIVE SeqsUpTo(_, _)
SeqsUpTo(S, n) ==
    IF n = 0 THEN {<<>>}
    ELSE LET shorter == SeqsUpTo(S, n - 1) IN
         shorter \cup {Append(q, x) : q \in shorter, x \in S}

\* The errors the transcript collaborator raises, as str(e).
TranscriptErrors ==
    {<<"TranscriptsDisabled">>, <<"TooManyRequests">>, <<"VideoUnavailable">>}

\* What YouTubeTranscriptApi.get_transcript can answer: it raises one of
\* its errors, or returns a list of fragments.
CaptionOutcomes ==
    {[raised |-> TRUE, error |-> e, fragments |-> <<>>] : e \in TranscriptErrors}
        \cup {[raised |-> FALSE, error |-> <<>>, fragments |-> f] :
                 f \in SeqsUpTo(Fragments, MaxFrags)}

\* join with the separator left out.
RECURSIVE JoinNoSeparator(_, _)
JoinNoSeparator(parts, sep) ==
    IF parts = <<>> THEN <<>>
    ELSE parts[1] \o JoinNoSeparator(Tail(parts), sep)

\* sep.join(parts)
RECURSIVE Join(_, _)
Join(parts, sep) ==
    IF parts = <<>> THEN <<>>
    ELSE IF Len(parts) = 1 THEN parts[1]
    ELSE parts[1] \o sep \o Join(Tail(parts), sep)

\* [entry['text'] for entry in transcript]
Texts(frags) == [i \in 1..Len(frags) |-> frags[i].text]

\* get_transcript(video_id) when the collaborator answers cap, with the
\* try/except of lines 80-87 left out: the error leaves the function.
get_transcript_NoCatch(id, cap) ==
    LET start == <<LogRec("info", "Fetching transcript for video ID", id)>> IN
    IF cap.raised
    THEN [raised |-> TRUE, ret |-> None, log |-> start]
    ELSE [raised |-> FALSE, ret |-> Join(Texts(cap.fragments), <<" ">>),
          log |-> start \o <<LogRec("info", "Transcript fetched successfully", <<>>)>>]

\* get_transcript(video_id) when the collaborator answers cap: any error it
\* raises is caught, logged and turned into None.
get_transcript(id, cap) ==
    LET start == <<LogRec("info", "Fetching transcript for video ID", id)>> IN
    IF cap.raised
    THEN [raised |-> FALSE, ret |-> None,
          log |-> start \o <<LogRec("error",
                      "An error occurred while fetching the transcript", cap.error)>>]
    ELSE [raised |-> FALSE, ret |-> Join(Texts(cap.fragments), <<" ">>),
          log |-> start \o <<LogRec("info", "Transcript fetched successfully", <<>>)>>]

-----------------------------------------------------------------------------
(* claude_api_request and generate_summary                                 *)

\* One element of the payload's content array: with or without a text.
ContentElements ==
    {[has_text |-> FALSE, text |-> <<>>]}
        \cup {[has_text |-> TRUE, text |-> t] : t \in {<<>>, <<"S">>, <<"S", "\n", "s">>}}

\* A response of the given status and body, the body parsing as JSON (or
\* not) to a payload that has a content array (or not).
Resp(status, text, json, has_content, content) ==
    [raised |-> FALSE, status |-> status, text |-> text, json |-> json,
     has_content |-> has_content, content |-> content]

\* What requests.post can answer: it raises (no connection), or returns a
\* response: a non-success status with a body, or the success status with a
\* body that is no JSON, a payload without content, an empty content array,
\* or a content array of one element.
ResponseOutcomes ==
    {[raised |-> TRUE, status |-> 0, text |-> <<>>, json |-> FALSE,
      has_content |-> FALSE, content |-> <<>>]}
        \cup {Resp(st, <<"e", "r", "r">>, TRUE, FALSE, <<>>) : st \in {401, 529}}
        \cup {Resp(HTTP_OK, <<"<", "h", "t", "m", "l", ">">>, FALSE, FALSE, <<>>)}
        \cup {Resp(HTTP_OK, <<"{", "}">>, TRUE, FALSE, <<>>)}
        \cup {Resp(HTTP_OK, <<"{", "}">>, TRUE, TRUE, <<>>)}
        \cup {Resp(HTTP_OK, <<"{", "}">>, TRUE, TRUE, <<e>>) : e \in ContentElements}

\* response.json()['content'][0]['text'] raises when the body is no JSON
\* (JSONDecodeError), the payload has no content (KeyError), the array is
\* empty (IndexError) or its first element has no text (KeyError).
PayloadLookupRaises(resp) ==
    \/ ~ resp.json
    \/ ~ resp.has_content
    \/ resp.content = <<>>
    \/ ~ resp.content[1].has_text

\* claude_api_request(prompt) when requests.post answers resp.  Neither the
\* post nor the payload lookup is guarded.
claude_api_request(prompt, resp) ==
    LET start  == <<LogRec("info", "Sending request to Claude Opus API", <<>>)>>
        status == <<LogRec("info", "Claude API response status code", <<>>)>>
    IN
    IF resp.raised
    THEN [raised |-> TRUE, ret |-> None, log |-> start]
    ELSE IF resp.status = HTTP_OK
    THEN IF PayloadLookupRaises(resp)
         THEN [raised |-> TRUE, ret |-> None, log |-> start \o status]
         ELSE [raised |-> FALSE, ret |-> resp.content[1].text,
               log |-> start \o status
                       \o <<LogRec("info", "Claude Opus API response received", <<>>)>>]
    ELSE [raised |-> FALSE, ret |-> None,
          log |-> start \o status
                  \o <<LogRec("error", "Error from Claude API", resp.text)>>]

\* The prompt generate_summary builds: the fixed instructions, the content,
\* and the closing "Summary:".
Prompt(content) == <<"<instructions>">> \o content \o <<"\n", "\n", "Summary:">>

\* generate_summary(content) when requests.post answers resp.
generate_summary(content, resp) ==
    LET r == claude_api_request(Prompt(content), resp)
        start == <<LogRec("info", "Generating summary", <<>>)>>
    IN
    IF r.raised
    THEN [raised |-> TRUE, ret |-> None, log |-> start \o r.log]
    ELSE IF Truthy(r.ret)
    THEN [raised |-> FALSE, ret |-> r.ret,
          log |-> start \o r.log
                  \o <<LogRec("info", "Summary generated successfully", <<>>)>>]
    ELSE [raised |-> FALSE, ret |-> r.ret,
          log |-> start \o r.log
                  \o <<LogRec("error", "Failed to generate summary", <<>>)>>]

-----------------------------------------------------------------------------
(* save_to_file                                                            *)

SUMMARY_SUFFIX == <<"_", "s", "u", "m", "m", "a", "r", "y", ".", "t", "x", "t">>

TITLE_LABEL == <<"V", "i", "d", "e", "o", " ", "T", "i", "t", "l", "e", ":", " ">>

URL_LABEL ==
    <<"V", "i", "d", "e", "o", " ", "U", "R", "L", ":", " ",
      "h", "t", "t", "p", "s", ":", "/", "/", "w", "w", "w", ".",
      "y", "o", "u", "t", "u", "b", "e", ".", "c", "o", "m",
      "/", "w", "a", "t", "c", "h", "?", "v", "=">>

SUMMARY_LABEL == <<"S", "u", "m", "m", "a", "r", "y", ":", "\n">>

TRANSCRIPT_LABEL ==
    <<"\n", "\n", "F", "u", "l", "l", " ", "T", "r", "a", "n", "s", "c", "r", "i", "p", "t", ":", "\n">>

\* No file in the working directory.
NoFile == [exists |-> FALSE, name |-> <<>>, content |-> <<>>]

\* The writes of lines 140-145, with the summary and the transcript in each
\* other's place.
FileContentSwapped(id, title, summ, trans) ==
    TITLE_LABEL \o title \o <<"\n">>
        \o URL_LABEL \o id \o <<"\n", "\n">>
        \o SUMMARY_LABEL
        \o trans
        \o TRANSCRIPT_LABEL
        \o summ

\* The writes of lines 140-145, in order.
FileContent(id, title, summ, trans) ==
    TITLE_LABEL \o title \o <<"\n">>
        \o URL_LABEL \o id \o <<"\n", "\n">>
        \o SUMMARY_LABEL
        \o summ
        \o TRANSCRIPT_LABEL
        \o trans

\* save_to_file(video_id, video_title, summary, transcript): open() either
\* fails (OSError: no permission, no such directory), which leaves the
\* function as an error with no file made, or the file is written.
save_to_file(id, title, summ, trans, can_open) ==
    IF ~ can_open
    THEN [raised |-> TRUE, file |-> NoFile, log |-> <<>>]
    ELSE [raised |-> FALSE,
          file |-> [exists |-> TRUE, name |-> id \o SUMMARY_SUFFIX,
                    content |-> FileContent(id, title, summ, trans)],
          log |-> <<LogRec("info", "Summary and transcript saved to",
                           id \o SUMMARY_SUFFIX)>>]

-----------------------------------------------------------------------------
(* The URLs given on the command line.                                     *)

SchemePrefix == HTTPS \o <<":", "/", "/">>

\* The four supported shapes, up to the identifier.
ShortPrefix == SchemePrefix \o YOUTU_BE \o <<"/">>

WatchPrefix == SchemePrefix \o WWW_YOUTUBE_COM \o WATCH_PATH \o <<"?", "v", "=">>

WatchBarePrefix == SchemePrefix \o YOUTUBE_COM \o WATCH_PATH \o <<"?", "v", "=">>

EmbedPrefix == SchemePrefix \o WWW_YOUTUBE_COM \o EMBED_PREFIX

VPrefix == SchemePrefix \o WWW_YOUTUBE_COM \o V_PREFIX

SupportedPrefixes == {ShortPrefix, WatchPrefix, WatchBarePrefix, EmbedPrefix, VPrefix}

\* URLs of no supported shape: another host, a supported host with another
\* path, a /watch URL whose query has no v, a short link without a scheme.
OtherHostPrefix == SchemePrefix \o <<"v", "i", "m", "e", "o", ".", "c", "o", "m", "/">>

OtherPathPrefix ==
    SchemePrefix \o WWW_YOUTUBE_COM \o <<"/", "s", "h", "o", "r", "t", "s", "/">>

NoVPrefix == SchemePrefix \o WWW_YOUTUBE_COM \o WATCH_PATH \o <<"?", "t", "=">>

NoSchemePrefix == YOUTU_BE \o <<"/">>

UnsupportedPrefixes == {OtherHostPrefix, OtherPathPrefix, NoVPrefix, NoSchemePrefix}

\* The characters an enumerated identifier part is made of: letters, digits
\* and '-' as in a real identifier, and the characters a URL gives a meaning.
IdChars == {"x", "Z", "1", "4", "-", "+", "%", ";"}

IdParts == SeqsUpTo(IdChars, MaxIdLen)

\* Every URL of the parser's specification: a prefix and an identifier
\* part, which may be empty.
AllURLs == {p \o i : p \in SupportedPrefixes \cup UnsupportedPrefixes, i \in IdParts}

\* The URLs of the pipeline's specification.
PipelineURLs ==
    {ShortPrefix \o <<"x", "Z", "1">>,
     WatchPrefix \o <<"x", "-", "4">>,
     EmbedPrefix \o <<"Z">>,
     ShortPrefix,
     NoVPrefix \o <<"x">>,
     OtherHostPrefix \o <<"x", "Z", "1">>}

-----------------------------------------------------------------------------
(* main                                                                    *)

Steps == <<"parse", "details", "transcript", "summarize", "write">>

Bump(c, step) == [c EXCEPT ![step] = @ + 1]

Finished == <<LogRec("info", "Finished processing video", <<>>)>>

\* Lines 154-156: without an identifier main returns at once.
MainAfterParse(id) == IF ~ Truthy(id) THEN "returned" ELSE "details"

\* Line 162 with the test left out.
MainAfterDetailsUnchecked(title) == "transcript"

\* Lines 162, 177-178: the transcript is fetched only with a title.
MainAfterDetails(title) == IF Truthy(title) THEN "transcript" ELSE "finished"

\* Lines 166, 175-176: the summary is asked for only with a transcript.
MainAfterTranscript(trans) == IF Truthy(trans) THEN "summarize" ELSE "finished"

\* Line 170 with a failed summary asked for again.
MainAfterSummaryRetry(summ) == IF Truthy(summ) THEN "write" ELSE "summarize"

\* Lines 170, 173-174: the file is written only with a summary.
MainAfterSummary(summ) == IF Truthy(summ) THEN "write" ELSE "finished"

InitCommon ==
    /\ pc = "start"
    /\ video_id = Unset
    /\ video_title = Unset
    /\ transcript = Unset
    /\ summary = Unset
    /\ info = [asked |-> FALSE, raised |-> FALSE, title |-> None]
    /\ captions = [asked |-> FALSE, raised |-> FALSE, error |-> <<>>, fragments |-> <<>>]
    /\ response = [asked |-> FALSE, raised |-> FALSE, status |-> 0, text |-> <<>>,
                   json |-> FALSE, has_content |-> FALSE, content |-> <<>>]
    /\ file = NoFile
    /\ log = <<>>
    /\ calls = [s \in Range(Steps) \cup {"post"} |-> 0]

Init == url \in PipelineURLs /\ InitCommon

InitURL == url \in AllURLs /\ InitCommon

\* Lines 153-156.
ParseURL ==
    /\ pc = "start"
    /\ LET r == extract_video_id(url) IN
         /\ video_id' = r.ret
         /\ pc' = MainAfterParse(r.ret)
         /\ log' = log \o r.log
                     \o (IF MainAfterParse(r.ret) = "returned"
                         THEN <<LogRec("error", "Invalid YouTube URL", <<>>)>>
                         ELSE <<>>)
    /\ calls' = Bump(calls, "parse")
    /\ UNCHANGED <<url, video_title, transcript, summary, info, captions, response, file>>

\* Lines 159-162, 177-180.
FetchMetadata ==
    /\ pc = "details"
    /\ \E inf \in InfoOutcomes :
         LET r == get_video_details(video_id, inf) IN
           /\ info' = [asked |-> TRUE, raised |-> inf.raised, title |-> inf.title]
           /\ IF r.raised
              THEN /\ pc' = "crashed"
                   /\ video_title' = video_title
                   /\ log' = log \o r.log
              ELSE /\ pc' = MainAfterDetails(r.ret)
                   /\ video_title' = r.ret
                   /\ log' = log \o r.log
                               \o (IF Truthy(r.ret) THEN <<>>
                                   ELSE <<LogRec("error", "Failed to get video details", <<>>)>>
                                        \o Finished)
    /\ calls' = Bump(calls, "details")
    /\ UNCHANGED <<url, video_id, transcript, summary, captions, response, file>>

\* Lines 163-166, 175-176, 180.
FetchTranscript ==
    /\ pc = "transcript"
    /\ \E cap \in CaptionOutcomes :
         LET r == get_transcript(video_id, cap) IN
           /\ captions' = [asked |-> TRUE, raised |-> cap.raised, error |-> cap.error,
                           fragments |-> cap.fragments]
           /\ IF r.raised
              THEN /\ pc' = "crashed"
                   /\ transcript' = transcript
                   /\ log' = log \o r.log
              ELSE /\ pc' = MainAfterTranscript(r.ret)
                   /\ transcript' = r.ret
                   /\ log' = log \o r.log
                               \o (IF Truthy(r.ret) THEN <<>>
                                   ELSE <<LogRec("error", "Failed to get transcript", <<>>)>>
                                        \o Finished)
    /\ calls' = Bump(calls, "transcript")
    /\ UNCHANGED <<url, video_id, video_title, summary, info, response, file>>

\* Lines 167-170, 173-174, 180.
Summarize ==
    /\ pc = "summarize"
    /\ \E resp \in ResponseOutcomes :
         LET r == generate_summary(transcript, resp) IN
           /\ response' = [asked |-> TRUE, raised |-> resp.raised, status |-> resp.status,
                           text |-> resp.text, json |-> resp.json,
                           has_content |-> resp.has_content, content |-> resp.content]
           /\ IF r.raised
              THEN /\ pc' = "crashed"
                   /\ summary' = summary
                   /\ log' = log \o r.log
              ELSE /\ pc' = MainAfterSummary(r.ret)
                   /\ summary' = r.ret
                   /\ log' = log \o r.log
                               \o (IF Truthy(r.ret) THEN <<>>
                                   ELSE <<LogRec("error", "Failed to generate summary", <<>>)>>
                                        \o Finished)
    /\ calls' = Bump(Bump(calls, "summarize"), "post")
    /\ UNCHANGED <<url, video_id, video_title, transcript, info, captions, file>>

\* Lines 171-172, 180.
Write ==
    /\ pc = "write"
    /\ \E can_open \in BOOLEAN :
         LET r == save_to_file(video_id, video_title, summary, transcript, can_open) IN
           /\ file' = r.file
           /\ IF r.raised
              THEN /\ pc' = "crashed"
                   /\ log' = log \o r.log
              ELSE /\ pc' = "finished"
                   /\ log' = log \o r.log \o Finished
    /\ calls' = Bump(calls, "write")
    /\ UNCHANGED <<url, video_id, video_title, transcript, summary, info, captions, response>>

Next == ParseURL \/ FetchMetadata \/ FetchTranscript \/ Summarize \/ Write

\* One run of main().
Spec == Init /\ [][Next]_vars

\* extract_video_id applied to every URL of AllURLs, as main's first step.
SpecURL == InitURL /\ [][ParseURL]_vars

-----------------------------------------------------------------------------
(* Properties.                                                             *)

\* A step's result that is a non-empty str.
HasValue(x) == x \notin {None, Unset, <<>>}

InLog(rec) == \E i \in 1..Len(log) : log[i] = rec

Terminal == {"returned", "finished", "crashed"}

NoFileWritten == calls["write"] = 0 /\ ~ file.exists

\* The steps after step number i were not executed.
NoneAfter(i) == \A j \in (i + 1)..Len(Steps) : calls[Steps[j]] = 0

RECURSIVE SumLen(_)
SumLen(parts) == IF parts = <<>> THEN 0 ELSE Len(parts[1]) + SumLen(Tail(parts))

\* C1: abort on first failure.  Once a step has run without yielding a
\* value, no later step has run and no file is written; with no title from
\* the metadata fetch there is no transcript fetch, summarization or write;
\* with a non-success status of the generation API there is no file and the
\* response body is in the log; and save_to_file is reached only with all
\* four earlier results.
C1_AbortOnFirstFailure ==
    /\ (calls["parse"] = 1 /\ ~ HasValue(video_id)) => NoneAfter(1) /\ NoFileWritten
    /\ (calls["details"] = 1 /\ ~ HasValue(video_title)) => NoneAfter(2) /\ NoFileWritten
    /\ (calls["transcript"] = 1 /\ ~ HasValue(transcript)) => NoneAfter(3) /\ NoFileWritten
    /\ (calls["summarize"] = 1 /\ ~ HasValue(summary)) => NoneAfter(4) /\ NoFileWritten
    /\ (info.asked /\ ~ info.raised /\ ~ HasValue(info.title))
           => /\ calls["transcript"] = 0 /\ calls["summarize"] = 0
              /\ ~ captions.asked /\ ~ response.asked
              /\ NoFileWritten
    /\ (response.asked /\ ~ response.raised /\ response.status # HTTP_OK)
           => /\ NoFileWritten
              /\ InLog(LogRec("error", "Error from Claude API", response.text))
    /\ (pc = "write" \/ calls["write"] > 0)
           => /\ HasValue(video_id) /\ HasValue(video_title)
              /\ HasValue(transcript) /\ HasValue(summary)
              /\ \A i \in 1..(Len(Steps) - 1) : calls[Steps[i]] = 1

\* C1's case: the generation API answered with a non-success status and the
\* run has ended.
C1_Witness ==
    /\ response.asked /\ ~ response.raised /\ response.status # HTTP_OK
    /\ pc = "finished"

\* The identifier part of url after prefix p.
IdPart(p) == Drop(url, Len(p))

\* C2 as stated: for every non-empty identifier without '/', '?', '&', '#',
\* each of the four supported shapes yields exactly that identifier.
C2_AnyIdWithoutDelimiters ==
    pc # "start" =>
        \A p \in SupportedPrefixes :
            (/\ StartsWith(url, p)
             /\ IdPart(p) # <<>>
             /\ Range(IdPart(p)) \cap {"/", "?", "&", "#"} = {})
                => video_id = IdPart(p)

\* The characters urlparse and parse_qs give a meaning: the delimiters, the
\* path-parameter mark, the query's space and escape marks, and white space.
UrlSpecial == {"/", "?", "&", "#", ";", "+", "%", " ", "\t", "\r", "\n"}

\* C2, amended: for every non-empty identifier made of none of the
\* characters of UrlSpecial, each of the four supported shapes yields
\* exactly that identifier.
C2_PlainIdExtracted ==
    pc # "start" =>
        \A p \in SupportedPrefixes :
            (/\ StartsWith(url, p)
             /\ IdPart(p) # <<>>
             /\ Range(IdPart(p)) \cap UrlSpecial = {})
                => video_id = IdPart(p)

\* C2's case: the canonical URL of identifier xZ1 was parsed to xZ1.
C2_Witness ==
    /\ pc = "details"
    /\ url = WatchPrefix \o <<"x", "Z", "1">>
    /\ video_id = <<"x", "Z", "1">>

\* C3 as stated: every URL that is of no supported shape, or of a supported
\* shape with an empty identifier, yields None.
C3_MalformedYieldsNone ==
    pc # "start" =>
        ((\/ \E p \in UnsupportedPrefixes : StartsWith(url, p)
          \/ url \in SupportedPrefixes)
            => video_id = None)

\* The payload of the response has content[0].text.
PayloadHasText ==
    /\ response.json /\ response.has_content
    /\ response.content # <<>> /\ response.content[1].has_text

\* C4 as stated: with the success status and content[0].text the summarizer
\* returns that text; with a non-success status, or the success status and a
\* parsed payload without content[0].text, it returns None and the run ends
\* by the 'Failed to generate summary' path with no file.
C4_MissingContentIsFailure ==
    (response.asked /\ ~ response.raised) =>
        /\ (response.status = HTTP_OK /\ PayloadHasText)
               => summary = response.content[1].text /\ pc # "crashed"
        /\ (response.status # HTTP_OK \/ (response.json /\ ~ PayloadHasText))
               => /\ summary = None
                  /\ pc = "finished"
                  /\ InLog(LogRec("error", "Failed to generate summary", <<>>))
                  /\ NoFileWritten

\* C5 as stated: no error of a collaborator leaves one of the four steps
\* before the writer; a run ends by a return of main.
C5_NoErrorPropagates == pc = "crashed" => calls["write"] = 1

\* C6: whatever error the transcript collaborator raises, get_transcript
\* returns None, the error is in the log, nothing is raised, and the run
\* ends with no summarization request and no file.
C6_TranscriptErrorsCollapse ==
    (captions.asked /\ captions.raised) =>
        /\ transcript = None
        /\ pc = "finished"
        /\ InLog(LogRec("error", "An error occurred while fetching the transcript",
                        captions.error))
        /\ InLog(LogRec("error", "Failed to get transcript", <<>>))
        /\ calls["summarize"] = 0 /\ calls["post"] = 0 /\ ~ response.asked
        /\ NoFileWritten

\* C6's case: the collaborator raised its rate-limit error.
C6_Witness ==
    captions.asked /\ captions.raised /\ captions.error = <<"TooManyRequests">>

\* How many steps were executed.
StepsDone ==
    calls["parse"] + calls["details"] + calls["transcript"]
        + calls["summarize"] + calls["write"]

\* Where main is before its n-th step.
PcBefore == <<"start", "details", "transcript", "summarize", "write">>

\* C7: a strict chain without retry.  Each step is executed at most once
\* and only after all earlier steps, the generation API is asked at most
\* once, a run that has not ended is at the step after those executed, and
\* after five steps the run has ended.
C7_StrictChain ==
    /\ \A i \in 1..Len(Steps) : calls[Steps[i]] <= 1
    /\ \A i \in 2..Len(Steps) : calls[Steps[i]] = 1 => calls[Steps[i - 1]] = 1
    /\ calls["post"] <= 1
    /\ StepsDone <= Len(Steps)
    /\ pc \notin Terminal => StepsDone < Len(Steps) /\ pc = PcBefore[StepsDone + 1]

\* C7's case: a run that executed all five steps and ended.
C7_Witness == pc = "finished" /\ StepsDone = Len(Steps)

\* The parts of the output file, in order: title line, URL line and blank
\* line, 'Summary:' label, summary, blank line and 'Full Transcript:' label,
\* transcript.
FileParts ==
    <<TITLE_LABEL, video_title, <<"\n">>,
      <<"V", "i", "d", "e", "o", " ", "U", "R", "L", ":", " ">>, WatchPrefix, video_id,
      <<"\n">>, <<"\n">>,
      <<"S", "u", "m", "m", "a", "r", "y", ":">>, <<"\n">>,
      summary,
      <<"\n">>, <<"\n">>,
      <<"F", "u", "l", "l", " ", "T", "r", "a", "n", "s", "c", "r", "i", "p", "t", ":">>, <<"\n">>,
      transcript>>

\* C8: the written file is named <identifier>_summary.txt and consists of
\* exactly the parts of FileParts, each at its place: the title, the
\* canonical URL, the summary and the transcript once each, whole, in this
\* order.
C8_FileLayout ==
    file.exists =>
        /\ file.name = video_id \o <<"_", "s", "u", "m", "m", "a", "r", "y", ".", "t", "x", "t">>
        /\ Len(file.content) = SumLen(FileParts)
        /\ \A i \in 1..Len(FileParts) :
               LET off == SumLen(SubSeq(FileParts, 1, i - 1)) IN
               SubSeq(file.content, off + 1, off + Len(FileParts[i])) = FileParts[i]

\* C8's case: a file written from a summary of more than one line and a
\* transcript of several fragments.
C8_Witness ==
    /\ file.exists
    /\ summary = <<"S", "\n", "s">>
    /\ transcript = <<"a", " ", "b">>
    /\ video_title = <<"M", "y">>

\* C9: the transcript is the fragments' texts in their order, whole, one
\* space between two neighbours and nothing else.
C9_JoinInOrder ==
    (captions.asked /\ ~ captions.raised) =>
        LET texts == [i \in 1..Len(captions.fragments) |-> captions.fragments[i].text]
            n     == Len(texts)
            at(i) == SumLen(SubSeq(texts, 1, i - 1)) + (i - 1)
        IN
        /\ Len(transcript) = SumLen(texts) + (IF n = 0 THEN 0 ELSE n - 1)
        /\ \A i \in 1..n : SubSeq(transcript, at(i) + 1, at(i) + Len(texts[i])) = texts[i]
        /\ \A i \in 1..(n - 1) : transcript[at(i) + Len(texts[i]) + 1] = " "

\* C9's case: the fragments a, b, c gave 'a b c'.
C9_Witness ==
    /\ captions.asked /\ ~ captions.raised
    /\ Len(captions.fragments) = 3
    /\ \A i \in 1..3 : captions.fragments[i].text = <<"a", "b", "c">>[i]
    /\ transcript = <<"a", " ", "b", " ", "c">>

\* C10: when save_to_file is invoked the identifier, the title, the summary
\* and the transcript are non-empty strs; a result that is present but empty
\* ends the run at its step, before the writer.
C10_WriterPrecondition ==
    /\ (pc = "write" \/ calls["write"] > 0)
           => /\ HasValue(video_id) /\ HasValue(video_title)
              /\ HasValue(summary) /\ HasValue(transcript)
    /\ (calls["parse"] = 1 /\ video_id = <<>>) => pc = "returned" /\ NoneAfter(1)
    /\ (calls["details"] = 1 /\ info.title = <<>>) => pc = "finished" /\ NoneAfter(2)
    /\ (calls["transcript"] = 1 /\ transcript = <<>>) => pc = "finished" /\ NoneAfter(3)
    /\ (calls["summarize"] = 1 /\ summary = <<>>) => pc = "finished" /\ NoneAfter(4)

\* C10's case: the transcript of zero fragments, which is empty, ended the
\* run.
C10_Witness ==
    /\ captions.asked /\ ~ captions.raised /\ captions.fragments = <<>>
    /\ transcript = <<>>
    /\ pc = "finished"

=============================================================================
